---- MODULE Spec2Model ----
(***************************************************************************)
(* A model of zgo.at/follow (follow.go): one Follower session, from the    *)
(* setup in Start on.  Three tasks of the program are modelled:            *)
(* the task running Start, the goroutine running mainloop, and a caller    *)
(* of Stop.  The environment is the file system (the followed path and     *)
(* the inodes behind it), the fsnotify watcher's queues, the context, the  *)
(* Reopen channel, and a consumer that receives every record offered on    *)
(* the unbuffered Data channel.                                            *)
(***************************************************************************)
EXTENDS Integers, Sequences, FiniteSets, TLC

\* ---------------------------------------------------------------- bounds
MaxOps     == 3     \* operations of the environment on the directory and channels
MaxWrites  == 3     \* appends to the followed path
MaxTruncs  == 1     \* truncations of the followed path
MaxRemoves == 1     \* removals / renames of the followed path
MaxReopens == 1     \* signals sent on Reopen
MaxNoise   == 1     \* notifications that are not write/remove/rename of the path
MaxWErrs   == 1     \* errors delivered on w.Errors
AttemptCap == 13    \* saturation of the history counter of reopen attempts

\* ------------------------------------------------------ program constants
Second      == 1000000000          \* time.Second, in nanoseconds
FastTries   == 10                  \* for i := 0; i < 10; i++
NL          == 10                  \* '\n'
DefaultRetry == 2 * Second         \* New(): Retry: 2 * time.Second

\* The values of Follower.Retry the sessions are run with.
RetryValues == {0 - Second, 0 - 1, 0, DefaultRetry}

\* Retry budgets of whole seconds: one second and the default.
BudgetValues == {Second, DefaultRetry}

File  == "f"        \* f.file, the absolute path followed
Other == "g"        \* another entry of the watched directory

VARIABLES
  Retry,      \* Follower.Retry
  files,      \* inode -> content (a sequence of bytes); inodes are 1..Len(files)
  path,       \* the inode f.file names, 0 when the path does not exist
  fp,         \* *f.fp: [ino, pos, closed]
  fpMu,       \* holder of f.fpMu: "free", "loop" or "caller"
  events,     \* w.Events, as queued by the watcher
  werrs,      \* errors pending on w.Errors
  reopenCh,   \* signals buffered in f.Reopen (capacity 1)
  ctx,        \* ctx.Err(): "nil", "Canceled" or "DeadlineExceeded"
  loopPc,     \* position of the goroutine running mainloop
  e,          \* mainloop: the event being handled (its Op)
  d,          \* mainloop: bytes read
  s,          \* mainloop: lines still to send
  i,          \* mainloop: fast phase counter
  wait,       \* mainloop: remaining slow phase budget
  startPc,    \* position of the task running Start
  Ready,      \* f.Ready is closed
  ret,        \* Start: the value it returns (err, or s received from f.stop)
  stopPc,     \* position of the external caller of Stop
  inStop,     \* position of mainloop inside its own call of Stop
  received,   \* every record the consumer received on Data, in order
  hist        \* history of the run (counters and snapshots), not program state

vars == <<Retry, Ready, ret, files, path, fp, fpMu, events, werrs, reopenCh, ctx, loopPc,
          e, d, s, i, wait, startPc, stopPc, inStop, received, hist>>

envVars  == <<files, path, events, werrs, reopenCh, ctx>>
loopVars == <<loopPc, e, d, s, i, wait, inStop>>

\* ------------------------------------------------------------- records
Line(b)  == [Err |-> "nil", Bytes |-> b]            \* Data{Bytes: ss}
ErrRec(x) == [Err |-> x, Bytes |-> <<>>]            \* Data{Err: err}
EOF      == ErrRec("EOF")                           \* Data{Err: io.EOF}
Away     == ErrRec("follow: file went away")
Gone     == ErrRec("follow: file went away and can't reopen")

\* ------------------------------------------------------- pure functions
\* bytes.Split(b, []byte{'\n'})
RECURSIVE Split(_)
Split(b) ==
  IF \A k \in 1..Len(b) : b[k] # NL THEN <<b>>
  ELSE LET k == CHOOSE k \in 1..Len(b) :
                  b[k] = NL /\ \A j \in 1..(k-1) : b[j] # NL
       IN  <<SubSeq(b, 1, k-1)>> \o Split(SubSeq(b, k+1, Len(b)))

Front(q) == SubSeq(q, 1, Len(q) - 1)
Last(q)  == q[Len(q)]

\* ReadAll that loses the first byte after the cursor.
ReadAll_skip(h) ==
  IF h.closed THEN [d |-> <<>>, pos |-> h.pos, err |-> TRUE]
  ELSE LET c == files[h.ino]
       IN  IF h.pos >= Len(c)
           THEN [d |-> <<>>, pos |-> h.pos, err |-> FALSE]
           ELSE [d |-> SubSeq(c, h.pos + 2, Len(c)), pos |-> Len(c), err |-> FALSE]

\* ioutil.ReadAll(f.fp): the bytes from the cursor to end-of-file, the cursor
\* after the read, and whether the read failed (the handle is closed).
ReadAll(h) ==
  IF h.closed THEN [d |-> <<>>, pos |-> h.pos, err |-> TRUE]
  ELSE LET c == files[h.ino]
       IN  IF h.pos >= Len(c)
           THEN [d |-> <<>>, pos |-> h.pos, err |-> FALSE]
           ELSE [d |-> SubSeq(c, h.pos + 1, Len(c)), pos |-> Len(c), err |-> FALSE]

\* f.fp.Seek(0, io.SeekCurrent) and f.fp.Seek(0, io.SeekEnd); both return 0
\* (and an ignored error) on a closed handle.
SeekCur(h) == IF h.closed THEN 0 ELSE h.pos
SeekEnd(h) == IF h.closed THEN 0 ELSE Len(files[h.ino])

\* os.Open(f.file) succeeds iff the path exists.
CanOpen == path # 0

\* openFile that always leaves the new handle at offset 0.
openFile_start(reopenArg) == [ino |-> path, closed |-> FALSE, pos |-> 0]

\* openFile that always seeks the new handle to the end.
openFile_end(reopenArg) ==
  [ino |-> path, closed |-> FALSE, pos |-> Len(files[path])]

\* openFile(reopen): the handle after a successful open.  *f.fp = *fp
\* overwrites the handle in place; unless reopen, it is seeked to the end.
openFile(reopenArg) ==
  [ino |-> path, closed |-> FALSE,
   pos |-> IF reopenArg THEN 0 ELSE Len(files[path])]

\* f.fp.Close()
Close(h) == [h EXCEPT !.closed = TRUE]

\* The watcher exists and the directory was added to it (lines 74-86).
Armed == startPc \notin {"abs", "open", "watcher", "add", "failed"}

\* The watcher's queue: an event identical to the newest queued one is
\* coalesced with it.  Nothing is queued before the directory is watched.
Notify(q, name, op) ==
  LET ev == [Name |-> name, Op |-> {op}]
  IN  IF ~Armed \/ (q # <<>> /\ Last(q) = ev) THEN q ELSE Append(q, ev)

Bump(h, k) == [h EXCEPT ![k] = @ + 1, !.ops = @ + 1]

\* History snapshots (not program state): of the call of Stop, of the
\* truncation, and of the last reopen the loop performed.
\* hist.later: the file was written after Stop was called.
NoTrunc  == [done |-> FALSE, pre |-> <<>>, cut |-> 0]
NoReopen == [done |-> FALSE, q |-> 0, p |-> 0]

\* ------------------------------------------------------------------ Init
\* The session once the setup of Start has succeeded on an empty file.
Started ==
  /\ files = << <<>> >>             \* touch(tmp): the followed file, empty
  /\ path = 1
  /\ fp = [ino |-> 1, pos |-> 0, closed |-> FALSE]    \* openFile(false)
  /\ fpMu = "free"
  /\ events = <<>>
  /\ werrs = 0
  /\ reopenCh = 0
  /\ ctx = "nil"
  /\ loopPc = "select"
  /\ e = {}
  /\ d = <<>>
  /\ s = <<>>
  /\ i = 0
  /\ wait = 0
  /\ startPc = "wait_stop"          \* close(f.Ready) done, at s := <-f.stop
  /\ Ready = TRUE
  /\ ret = "unset"
  /\ stopPc = "idle"
  /\ inStop = "no"
  /\ received = <<>>
  /\ hist = [writes |-> 0, truncs |-> 0, removes |-> 0, reopens |-> 0,
             noise |-> 0, werrs |-> 0, ops |-> 0, opens |-> 0,
             later |-> FALSE, trunc |-> NoTrunc, rescan |-> FALSE,
             reopen |-> NoReopen]

Init == Retry \in RetryValues /\ Started

\* The state when Start is called on a new Follower (New(), lines 41-50):
\* f.fp is nil, the path may or may not exist.
InitSetup ==
  /\ Retry = DefaultRetry
  /\ files = << <<>> >>
  /\ path \in {0, 1}
  /\ fp = [ino |-> 0, pos |-> 0, closed |-> TRUE]      \* no handle yet
  /\ fpMu = "free"
  /\ events = <<>>
  /\ werrs = 0
  /\ reopenCh = 0
  /\ ctx = "nil"
  /\ loopPc = "not_started"
  /\ e = {}
  /\ d = <<>>
  /\ s = <<>>
  /\ i = 0
  /\ wait = 0
  /\ startPc = "abs"
  /\ Ready = FALSE
  /\ ret = "unset"
  /\ stopPc = "idle"
  /\ inStop = "no"
  /\ received = <<>>
  /\ hist = [writes |-> 0, truncs |-> 0, removes |-> 0, reopens |-> 0,
             noise |-> 0, werrs |-> 0, ops |-> 0, opens |-> 0,
             later |-> FALSE, trunc |-> NoTrunc, rescan |-> FALSE,
             reopen |-> NoReopen]

\* ---------------------------------------------------------- environment
\* The n-th append writes a byte of its own, a newline, or both (a whole line).
Chunks(n) == { <<97 + n>>, <<NL>>, <<97 + n, NL>> }

\* write(): append to the file the path names; the watcher reports a Write.
WriteFile ==
  /\ path # 0 /\ hist.ops < MaxOps /\ hist.writes < MaxWrites
  /\ \E c \in Chunks(hist.writes) :
       files' = [files EXCEPT ![path] = @ \o c]
  /\ events' = Notify(events, File, "Write")
  /\ hist' = [Bump(hist, "writes") EXCEPT
                !.later = (stopPc # "idle")]
  /\ UNCHANGED <<Retry, Ready, ret, path, fp, fpMu, werrs, reopenCh, ctx, loopVars,
                 startPc, stopPc, received>>

\* os.Create on the existing path (O_TRUNC) or os.Truncate(tmp, n): the file
\* shrinks in place; the watcher reports a Write.
Truncate ==
  /\ path # 0 /\ hist.ops < MaxOps /\ hist.truncs < MaxTruncs
  /\ \E n \in 0..(Len(files[path]) - 1) :
       /\ files' = [files EXCEPT ![path] = SubSeq(@, 1, n)]
       /\ hist' = [Bump(hist, "truncs") EXCEPT
                     !.trunc = [done |-> TRUE, pre |-> files[path], cut |-> n]]
  /\ events' = Notify(events, File, "Write")
  /\ UNCHANGED <<Retry, Ready, ret, path, fp, fpMu, werrs, reopenCh, ctx, loopVars,
                 startPc, stopPc, received>>

\* os.Remove(tmp), or a rename of the path to another name: the path no longer
\* exists (the inode lives on behind open handles).
RemoveFile ==
  /\ path # 0 /\ hist.ops < MaxOps /\ hist.removes < MaxRemoves
  /\ path' = 0
  /\ \E op \in {"Remove", "Rename"} : events' = Notify(events, File, op)
  /\ hist' = Bump(hist, "removes")
  /\ UNCHANGED <<Retry, Ready, ret, files, fp, fpMu, werrs, reopenCh, ctx, loopVars,
                 startPc, stopPc, received>>

\* touch(tmp) when the path is absent: a new, empty inode.
CreateFile ==
  /\ path = 0
  /\ files' = Append(files, <<>>)
  /\ path' = Len(files) + 1
  /\ events' = Notify(events, File, "Create")
  /\ UNCHANGED <<Retry, Ready, ret, fp, fpMu, werrs, reopenCh, ctx, loopVars,
                 startPc, stopPc, received, hist>>

\* Any other notification of the watched directory: another entry is written,
\* or the followed path has its mode changed.
Noise ==
  /\ hist.ops < MaxOps /\ hist.noise < MaxNoise
  /\ \E ev \in { <<Other, "Write">>, <<File, "Chmod">> } :
       events' = Notify(events, ev[1], ev[2])
  /\ hist' = Bump(hist, "noise")
  /\ UNCHANGED <<Retry, Ready, ret, files, path, fp, fpMu, werrs, reopenCh, ctx, loopVars,
                 startPc, stopPc, received>>

\* The watcher reports an error on w.Errors.
WatcherError ==
  /\ hist.ops < MaxOps /\ hist.werrs < MaxWErrs /\ werrs = 0
  /\ werrs' = 1
  /\ hist' = Bump(hist, "werrs")
  /\ UNCHANGED <<Retry, Ready, ret, files, path, fp, fpMu, events, reopenCh, ctx, loopVars,
                 startPc, stopPc, received>>

\* f.Reopen <- os.Interrupt (capacity 1).
SignalReopen ==
  /\ hist.ops < MaxOps /\ hist.reopens < MaxReopens /\ reopenCh = 0
  /\ reopenCh' = 1
  /\ hist' = Bump(hist, "reopens")
  /\ UNCHANGED <<Retry, Ready, ret, files, path, fp, fpMu, events, werrs, ctx, loopVars,
                 startPc, stopPc, received>>

\* The context becomes done: cancelled, or its deadline passes.
CtxDone ==
  /\ ctx = "nil"
  /\ ctx' \in {"Canceled", "DeadlineExceeded"}
  /\ UNCHANGED <<Retry, Ready, ret, files, path, fp, fpMu, events, werrs, reopenCh, loopVars,
                 startPc, stopPc, received, hist>>
\* ------------------------------------------------------------- Start
\* f.Data <- r, with the consumer receiving.
Send(r) == received' = Append(received, r)

\* Start, lines 63-66: f.file, err = filepath.Abs(file); it fails when the
\* working directory cannot be determined.
Start_abs ==
  /\ startPc = "abs"
  /\ \E ok \in BOOLEAN :
       IF ok THEN startPc' = "open" /\ ret' = ret
       ELSE startPc' = "failed" /\ ret' = "getwd"
  /\ UNCHANGED <<Retry, Ready, envVars, fp, fpMu, loopVars, stopPc, received, hist>>

\* Start, lines 68-72: err = f.openFile(false); defer f.fp.Close()
Start_open ==
  /\ startPc = "open"
  /\ IF CanOpen
     THEN fp' = openFile(FALSE) /\ startPc' = "watcher" /\ ret' = ret
     ELSE fp' = fp /\ startPc' = "failed" /\ ret' = "open: no such file"
  /\ UNCHANGED <<Retry, Ready, envVars, fpMu, loopVars, stopPc, received, hist>>

\* Start_watcher that sends io.EOF when the watcher cannot be created.
Start_watcher_eof ==
  /\ startPc = "watcher"
  /\ \E ok \in BOOLEAN :
       IF ok THEN startPc' = "add" /\ ret' = ret /\ fp' = fp /\ received' = received
       ELSE startPc' = "failed" /\ ret' = "inotify" /\ fp' = Close(fp) /\ Send(EOF)
  /\ UNCHANGED <<Retry, Ready, envVars, fpMu, loopVars, stopPc, hist>>

\* Start, lines 74-77: w, err := fsnotify.NewWatcher(); a return from here on
\* runs the deferred f.fp.Close().
Start_watcher ==
  /\ startPc = "watcher"
  /\ \E ok \in BOOLEAN :
       IF ok THEN startPc' = "add" /\ ret' = ret /\ fp' = fp
       ELSE startPc' = "failed" /\ ret' = "inotify" /\ fp' = Close(fp)
  /\ UNCHANGED <<Retry, Ready, envVars, fpMu, loopVars, stopPc, received, hist>>

\* Start, lines 83-86: err = w.Add(filepath.Dir(f.file))
Start_add ==
  /\ startPc = "add"
  /\ \E ok \in BOOLEAN :
       IF ok THEN startPc' = "go" /\ ret' = ret /\ fp' = fp
       ELSE startPc' = "failed" /\ ret' = "add" /\ fp' = Close(fp)
  /\ UNCHANGED <<Retry, Ready, envVars, fpMu, loopVars, stopPc, received, hist>>

\* Start, lines 89-92: go func() { for f.mainloop(ctx, w) {} }()
Start_go ==
  /\ startPc = "go" /\ loopPc = "not_started"
  /\ loopPc' = "select"
  /\ startPc' = "ready"
  /\ UNCHANGED <<Retry, Ready, ret, envVars, fp, fpMu, e, d, s, i, wait, inStop,
                 stopPc, received, hist>>

\* Start, lines 94-95: close(f.Ready), then wait at s := <-f.stop
Start_ready ==
  /\ startPc = "ready"
  /\ Ready' = TRUE
  /\ startPc' = "wait_stop"
  /\ UNCHANGED <<Retry, ret, envVars, fp, fpMu, loopVars, stopPc, received, hist>>

\* Start, line 96: f.Data <- Data{Err: io.EOF}
Start_sendEOF ==
  /\ startPc = "send_eof"
  /\ Send(EOF)
  /\ startPc' = "close"
  /\ UNCHANGED <<Retry, Ready, ret, envVars, fp, fpMu, loopVars, stopPc, hist>>

\* Start, lines 72 and 97: return s, running the deferred f.fp.Close().
Start_return ==
  /\ startPc = "close"
  /\ fp' = Close(fp)
  /\ startPc' = "returned"
  /\ UNCHANGED <<Retry, Ready, ret, envVars, fpMu, loopVars, stopPc, received, hist>>

\* -------------------------------------------------------------- Stop
\* A task calls f.Stop(): the test or application, at most once, after Ready
\* is closed.
Stop_call ==
  /\ stopPc = "idle" /\ Ready
  /\ stopPc' = "send"
  /\ UNCHANGED <<Retry, Ready, ret, envVars, fp, fpMu, loopVars, startPc, received, hist>>

\* Stop, line 54: f.stop <- nil, received by Start's s := <-f.stop.
Stop_send ==
  /\ startPc = "wait_stop"
  /\ startPc' = "send_eof"
  /\ \E t \in {"caller", "loop"} :
       IF t = "caller"
       THEN stopPc = "send" /\ stopPc' = "lock" /\ UNCHANGED inStop
       ELSE inStop = "send" /\ inStop' = "lock" /\ UNCHANGED stopPc
  /\ ret' = "nil"
  /\ UNCHANGED <<Retry, Ready, envVars, fp, fpMu, loopPc, e, d, s, i, wait, received, hist>>

\* Stop, lines 55-58: f.fpMu.Lock(); f.fp = nil on the receiver's copy (Stop
\* has a value receiver, the session's handle is untouched); f.fpMu.Unlock();
\* return.  In mainloop the caller then returns false and the goroutine ends.
Stop_lock ==
  /\ fpMu = "free"
  /\ \E t \in {"caller", "loop"} :
       IF t = "caller"
       THEN stopPc = "lock" /\ stopPc' = "returned"
            /\ UNCHANGED <<inStop, loopPc>>
       ELSE inStop = "lock" /\ inStop' = "no"
            /\ loopPc' = "exited" /\ UNCHANGED stopPc
  /\ UNCHANGED <<Retry, Ready, ret, envVars, fp, fpMu, e, d, s, i, wait, startPc, received, hist>>

\* ----------------------------------------------------------- mainloop
\* AfterWrite with the reconnect started whatever Retry is.
AfterWrite_retry(op) ==
  IF "Remove" \in op \/ "Rename" \in op THEN "rm_lock" ELSE "select"

\* Where mainloop goes once the Write part of an event is done: lines 209-216.
AfterWrite(op) ==
  IF "Remove" \in op \/ "Rename" \in op
  THEN IF Retry = 0 THEN "away_send" ELSE "rm_lock"
  ELSE "select"

\* Every cause of the context's end is reported.
Surfaced_all(err) == err # "nil"

\* line 139: err != nil && err != context.Canceled
Surfaced(err) == err # "nil" /\ err # "Canceled"

\* select, case <-ctx.Done() (lines 137-139)
mainloop_ctxDone ==
  /\ loopPc = "select" /\ ctx # "nil"
  /\ loopPc' = IF Surfaced(ctx) THEN "ctx_err" ELSE "ctx_stop"
  /\ UNCHANGED <<Retry, Ready, ret, envVars, fp, fpMu, e, d, s, i, wait, inStop,
                 startPc, stopPc, received, hist>>

\* line 140: f.Data <- Data{Err: err}
mainloop_ctxErr ==
  /\ loopPc = "ctx_err"
  /\ Send(ErrRec(ctx))
  /\ loopPc' = "ctx_stop"
  /\ UNCHANGED <<Retry, Ready, ret, envVars, fp, fpMu, e, d, s, i, wait, inStop,
                 startPc, stopPc, hist>>

\* lines 142-143: f.stop <- nil (received by Start), return false
mainloop_ctxStop ==
  /\ loopPc = "ctx_stop" /\ startPc = "wait_stop"
  /\ startPc' = "send_eof"
  /\ ret' = "nil"
  /\ loopPc' = "exited"
  /\ UNCHANGED <<Retry, Ready, envVars, fp, fpMu, e, d, s, i, wait, inStop,
                 stopPc, received, hist>>

\* select, case err := <-w.Errors (line 145)
mainloop_watchErr ==
  /\ loopPc = "select" /\ werrs > 0
  /\ werrs' = werrs - 1
  /\ loopPc' = "werr_send"
  /\ UNCHANGED <<Retry, Ready, ret, files, path, events, reopenCh, ctx, fp, fpMu, e, d, s, i,
                 wait, inStop, startPc, stopPc, received, hist>>

\* line 149: f.Data <- Data{Err: err}
mainloop_watchErrSend ==
  /\ loopPc = "werr_send"
  /\ Send(ErrRec("watcher"))
  /\ loopPc' = "select"
  /\ UNCHANGED <<Retry, Ready, ret, envVars, fp, fpMu, e, d, s, i, wait, inStop,
                 startPc, stopPc, hist>>

\* select, case <-f.Reopen (line 151)
mainloop_reopen ==
  /\ loopPc = "select" /\ reopenCh > 0
  /\ reopenCh' = reopenCh - 1
  /\ loopPc' = "reopen_lock"
  /\ UNCHANGED <<Retry, Ready, ret, files, path, events, werrs, ctx, fp, fpMu, e, d, s, i,
                 wait, inStop, startPc, stopPc, received, hist>>

\* reopen, lines 124-132: lock; f.fp.Close(); err := f.openFile(false); unlock.
reopen ==
  /\ loopPc = "reopen_lock" /\ fpMu = "free"
  /\ IF CanOpen
     THEN fp' = openFile(FALSE) /\ loopPc' = "select"
     ELSE fp' = Close(fp) /\ loopPc' = "reopen_err"
  /\ fpMu' = "free"
  /\ hist' = [hist EXCEPT !.reopen =
                [done |-> TRUE, q |-> fp'.pos, p |-> fp.pos]]
  /\ UNCHANGED <<Retry, Ready, ret, envVars, e, d, s, i, wait, inStop,
                 startPc, stopPc, received>>

\* line 154: f.Data <- Data{Err: err}
mainloop_reopenErr ==
  /\ loopPc = "reopen_err"
  /\ Send(ErrRec("open: no such file"))
  /\ loopPc' = "select"
  /\ UNCHANGED <<Retry, Ready, ret, envVars, fp, fpMu, e, d, s, i, wait, inStop,
                 startPc, stopPc, hist>>

\* mainloop_event without the comparison of e.Name with f.file.
mainloop_event_any ==
  /\ loopPc = "select" /\ events # <<>>
  /\ events' = Tail(events)
  /\ LET ev == Head(events)
     IN  IF "Write" \in ev.Op
         THEN loopPc' = "write_lock" /\ e' = ev.Op
         ELSE loopPc' = AfterWrite(ev.Op) /\ e' = {}
  /\ UNCHANGED <<Retry, Ready, ret, files, path, werrs, reopenCh, ctx, fp, fpMu, d, s, i,
                 wait, inStop, startPc, stopPc, received, hist>>

\* select, case e := <-w.Events (lines 157-165, 209-216)
mainloop_event ==
  /\ loopPc = "select" /\ events # <<>>
  /\ events' = Tail(events)
  /\ LET ev == Head(events)
     IN  IF ev.Name # File
         THEN loopPc' = "select" /\ e' = {}
         ELSE IF "Write" \in ev.Op
         THEN loopPc' = "write_lock" /\ e' = ev.Op
         ELSE loopPc' = AfterWrite(ev.Op) /\ e' = {}
  /\ UNCHANGED <<Retry, Ready, ret, files, path, werrs, reopenCh, ctx, fp, fpMu, d, s, i,
                 wait, inStop, startPc, stopPc, received, hist>>

\* lines 166-167: f.fpMu.Lock(); d, err := ioutil.ReadAll(f.fp)
mainloop_readAll ==
  /\ loopPc = "write_lock" /\ fpMu = "free"
  /\ fpMu' = "loop"
  /\ LET r == ReadAll(fp)
     IN  /\ d' = r.d
         /\ fp' = [fp EXCEPT !.pos = r.pos]
         /\ loopPc' = IF r.err THEN "read_err"
                      ELSE IF Len(r.d) = 0 THEN "truncated" ELSE "split"
  /\ UNCHANGED <<Retry, Ready, ret, envVars, e, s, i, wait, inStop,
                 startPc, stopPc, received, hist>>

\* line 169: f.Data <- Data{Err: err}, sent with fpMu held
mainloop_readErr ==
  /\ loopPc = "read_err"
  /\ Send(ErrRec("read: file already closed"))
  /\ loopPc' = IF Len(d) = 0 THEN "truncated" ELSE "split"
  /\ UNCHANGED <<Retry, Ready, ret, envVars, fp, fpMu, e, d, s, i, wait, inStop,
                 startPc, stopPc, hist>>

\* The comparison of line 181 with >= for >.
Shrunk_ge(cur, end) == cur >= end

\* The comparison of line 181 never true: a shrunken file is not noticed.
Shrunk_never(cur, end) == FALSE

\* line 181: if cur > end
Shrunk(cur, end) == cur > end

\* lines 174-190: nothing was read; compare the cursor with end-of-file and
\* either read the file again from offset 0 or put the cursor back.  (On a
\* closed handle both seeks return 0, so the second ReadAll is never reached
\* with a handle it would fail on.)
mainloop_truncated ==
  /\ loopPc = "truncated"
  /\ LET cur == SeekCur(fp)
         end == SeekEnd(fp)
         r   == ReadAll([fp EXCEPT !.pos = 0])
     IN  IF Shrunk(cur, end)
         THEN /\ d' = r.d /\ fp' = [fp EXCEPT !.pos = r.pos]
              /\ hist' = [hist EXCEPT !.rescan = TRUE]
         ELSE /\ d' = d /\ fp' = fp      \* f.fp.Seek(cur, io.SeekStart)
              /\ hist' = hist
  /\ loopPc' = "split"
  /\ UNCHANGED <<Retry, Ready, ret, envVars, fpMu, e, s, i, wait, inStop,
                 startPc, stopPc, received>>

\* The unterminated tail is not given back.
SeekBack_none(h, seek) == h

\* The cursor after line 198, f.fp.Seek(int64(-seek), io.SeekCurrent), for an
\* unterminated tail of length seek.
SeekBack(h, seek) == IF h.closed THEN h ELSE [h EXCEPT !.pos = @ - seek]

\* lines 192-201: split, give the unterminated tail back, unlock.
mainloop_split ==
  /\ loopPc = "split"
  /\ LET sp == Split(d)
     IN  /\ fp' = IF Len(Last(sp)) # 0 THEN SeekBack(fp, Len(Last(sp))) ELSE fp
         /\ s' = Front(sp)
         /\ loopPc' = IF Front(sp) = <<>> THEN AfterWrite(e) ELSE "emit"
  /\ fpMu' = "free"
  /\ d' = <<>>
  /\ UNCHANGED <<Retry, Ready, ret, envVars, e, i, wait, inStop,
                 startPc, stopPc, received, hist>>

\* lines 203-205: f.Data <- Data{Bytes: ss}
mainloop_emit ==
  /\ loopPc = "emit"
  /\ Send(Line(Head(s)))
  /\ s' = Tail(s)
  /\ loopPc' = IF Tail(s) = <<>> THEN AfterWrite(e) ELSE "emit"
  /\ UNCHANGED <<Retry, Ready, ret, envVars, fp, fpMu, e, d, i, wait, inStop,
                 startPc, stopPc, hist>>

\* lines 210-211: Retry == 0, f.Data <- Data{Err: "follow: file went away"},
\* then the call of f.Stop() on line 212.
mainloop_away ==
  /\ loopPc = "away_send"
  /\ Send(Away)
  /\ loopPc' = "Stop"
  /\ inStop' = "send"
  /\ UNCHANGED <<Retry, Ready, ret, envVars, fp, fpMu, e, d, s, i, wait,
                 startPc, stopPc, hist>>

\* lines 216-218: f.fpMu.Lock(); defer f.fpMu.Unlock(); f.fp.Close()
mainloop_removeLock ==
  /\ loopPc = "rm_lock" /\ fpMu = "free"
  /\ fpMu' = "loop"
  /\ fp' = Close(fp)
  /\ i' = 0
  /\ loopPc' = "fast"
  /\ hist' = [hist EXCEPT !.opens = 0]
  /\ UNCHANGED <<Retry, Ready, ret, envVars, e, d, s, wait, inStop,
                 startPc, stopPc, received>>

\* One more reopen attempt in the history counter (it saturates).
Attempt(h) == [h EXCEPT !.opens = IF @ < AttemptCap THEN @ + 1 ELSE @]

\* The fast phase one attempt short.
FastDone_early(n) == n >= FastTries - 1

\* The fast phase gives up after this many failed attempts (line 223).
FastDone(n) == n >= FastTries

\* lines 223-231: one attempt of the fast phase.  On success mainloop returns
\* true and the deferred Unlock runs; on failure it sleeps 25ms.
mainloop_fast ==
  /\ loopPc = "fast"
  /\ hist' = Attempt(hist)
  /\ IF CanOpen
     THEN /\ fp' = openFile(TRUE)
          /\ fpMu' = "free"
          /\ loopPc' = "select"
          /\ i' = 0 /\ wait' = 0
     ELSE /\ i' = i + 1
          /\ loopPc' = IF FastDone(i + 1) THEN "slow" ELSE "fast"
          /\ wait' = IF FastDone(i + 1) THEN Retry ELSE wait
          /\ UNCHANGED <<fp, fpMu>>
  /\ UNCHANGED <<Retry, Ready, ret, envVars, e, d, s, inStop, startPc, stopPc, received>>

\* forever never set.
Forever_never == FALSE

\* forever := f.Retry == -1 (line 232)
Forever == Retry = 0 - 1

\* lines 233-241: the head of the slow phase: leave the loop when the budget
\* is used up, else pay one second and sleep it.
mainloop_slow ==
  /\ loopPc = "slow"
  /\ IF ~Forever /\ wait <= 0
     THEN loopPc' = "gone_send" /\ wait' = wait
     ELSE /\ wait' = IF Forever THEN wait ELSE wait - Second
          /\ loopPc' = "slow_open"
  /\ UNCHANGED <<Retry, Ready, ret, envVars, fp, fpMu, e, d, s, i, inStop,
                 startPc, stopPc, received, hist>>

\* lines 243-246: one attempt of the slow phase, after the sleep.
mainloop_slowOpen ==
  /\ loopPc = "slow_open"
  /\ hist' = Attempt(hist)
  /\ IF CanOpen
     THEN /\ fp' = openFile(TRUE)
          /\ fpMu' = "free"
          /\ loopPc' = "select"
          /\ i' = 0 /\ wait' = 0
     ELSE /\ loopPc' = "slow"
          /\ UNCHANGED <<fp, fpMu, i, wait>>
  /\ UNCHANGED <<Retry, Ready, ret, envVars, e, d, s, inStop, startPc, stopPc, received>>

\* mainloop_gone without the f.Stop() and return false after the record: the
\* slow phase goes on.
mainloop_gone_on ==
  /\ loopPc = "gone_send"
  /\ Send(Gone)
  /\ loopPc' = "slow"
  /\ UNCHANGED <<Retry, Ready, ret, envVars, fp, fpMu, e, d, s, i, wait, inStop,
                 startPc, stopPc, hist>>

\* lines 248-249: f.Data <- Data{Err: "... can't reopen"}, then f.Stop() is
\* called with fpMu still held by this goroutine.
mainloop_gone ==
  /\ loopPc = "gone_send"
  /\ Send(Gone)
  /\ loopPc' = "Stop"
  /\ inStop' = "send"
  /\ UNCHANGED <<Retry, Ready, ret, envVars, fp, fpMu, e, d, s, i, wait,
                 startPc, stopPc, hist>>

\* ------------------------------------------------------------ the system
Environment ==
  \/ WriteFile \/ Truncate \/ RemoveFile \/ CreateFile
  \/ Noise \/ WatcherError \/ SignalReopen \/ CtxDone

Start == Start_sendEOF \/ Start_return

Stop == Stop_call \/ Stop_send \/ Stop_lock

mainloop ==
  \/ mainloop_ctxDone \/ mainloop_ctxErr \/ mainloop_ctxStop
  \/ mainloop_watchErr \/ mainloop_watchErrSend
  \/ mainloop_reopen \/ reopen \/ mainloop_reopenErr
  \/ mainloop_event \/ mainloop_readAll
  \/ mainloop_readErr \/ mainloop_truncated \/ mainloop_split \/ mainloop_emit
  \/ mainloop_away \/ mainloop_removeLock \/ mainloop_fast \/ mainloop_slow
  \/ mainloop_slowOpen \/ mainloop_gone

Next == Environment \/ Start \/ Stop \/ mainloop

Spec == Init /\ [][Next]_vars

\* mainloop's handling of a notification up to the end of its Write part.
WritePath ==
  \/ mainloop_event \/ mainloop_readAll \/ mainloop_readErr
  \/ mainloop_truncated \/ mainloop_split \/ mainloop_emit

\* The session with the default Retry of New().
InitDefault == Init /\ Retry = DefaultRetry

\* An append-only session ended by Stop: the file is only appended to, other
\* entries of the directory change, and Stop is called.  (The actions left
\* out are never enabled in such a session.)
NextAppend == WriteFile \/ Noise \/ Start \/ Stop \/ WritePath

SpecAppend == InitDefault /\ [][NextAppend]_vars

\* A session on which Stop is never called from outside: it ends, if it does,
\* by the context or by the loss of the file.
NextNoStop == Environment \/ Start \/ Stop_send \/ Stop_lock \/ mainloop

SpecNoStop == Init /\ [][NextNoStop]_vars

\* A session with a Retry budget of whole seconds in which the path is removed
\* or renamed, perhaps created again and written: the reconnect of mainloop.
InitBudget == Retry \in BudgetValues /\ Started

NextReconnect ==
  \/ WriteFile \/ RemoveFile \/ CreateFile
  \/ Start \/ Stop_send
  \/ mainloop_event \/ mainloop_readAll \/ mainloop_truncated
  \/ mainloop_split \/ mainloop_emit
  \/ mainloop_removeLock \/ mainloop_fast \/ mainloop_slow
  \/ mainloop_slowOpen \/ mainloop_gone

SpecReconnect == InitBudget /\ [][NextReconnect]_vars

\* A session of appends that ends by Stop or by the context, whichever comes
\* first, under fair scheduling: each of the three tasks (the one running
\* Start, the goroutine running mainloop, the caller of Stop) takes a step
\* when it stays able to, and the consumer receives every record offered.
NextStopping ==
  \/ WriteFile \/ CtxDone
  \/ Start \/ Stop
  \/ mainloop_ctxDone \/ mainloop_ctxErr \/ mainloop_ctxStop
  \/ WritePath

Fairness ==
  /\ WF_vars(Start)
  /\ WF_vars(Stop_send \/ Stop_lock)
  /\ WF_vars(mainloop)

SpecStopFair == InitDefault /\ [][NextStopping]_vars /\ Fairness

\* The setup of Start (lines 63-94), followed when it succeeds by an
\* append-only session.
Setup ==
  \/ Start_abs \/ Start_open \/ Start_watcher \/ Start_add
  \/ Start_go \/ Start_ready

NextSetup == Setup \/ NextAppend

SpecSetup == InitSetup /\ [][NextSetup]_vars

\* ------------------------------------------------------------ properties
Range(q) == { q[k] : k \in 1..Len(q) }

IsPrefix(a, b) == Len(a) <= Len(b) /\ a = SubSeq(b, 1, Len(a))

\* The complete (newline-terminated) lines of b, and them as records.
CompleteLines(b) == Front(Split(b))
Recs(ls) == [k \in 1..Len(ls) |-> Line(ls[k])]

\* The line records of q, and the records of q before the first io.EOF.
LinesOnly(q) == SelectSeq(q, LAMBDA r : r.Err = "nil")
BeforeEOF(q) ==
  IF EOF \in Range(q)
  THEN SubSeq(q, 1, (CHOOSE k \in 1..Len(q) :
                       q[k] = EOF /\ \A j \in 1..(k-1) : q[j] # EOF) - 1)
  ELSE q

\* No truncation, removal, rename or reopen trigger so far.
AppendOnly == hist.truncs = 0 /\ hist.removes = 0 /\ hist.reopens = 0

\* Every append so far wrote one newline-terminated line.
WholeLines(b) == \A k \in 1..Len(b) : (b[k] = NL) <=> (k % 2 = 0)

C2_EOFLast ==
  \A k \in 1..Len(received) : received[k] = EOF => k = Len(received)

\* C3: once Stop has returned to its caller, the goroutine running mainloop
\* has exited and no record is sent on Data any more.
C3_StopSynchronous ==
  [][stopPc = "returned" => (loopPc = "exited" /\ received' = received)]_vars

\* ---------------------------------------------- properties: termination
Count(q, r) == Cardinality({ k \in 1..Len(q) : q[k] = r })

\* q without a trailing io.EOF.
Body(q) == IF q # <<>> /\ Last(q) = EOF THEN Front(q) ELSE q

DeadlineErr == ErrRec("DeadlineExceeded")

\* mainloop is servicing, or has serviced, the end of the context.
ByCtx ==
  \/ loopPc \in {"ctx_err", "ctx_stop"}
  \/ loopPc = "exited" /\ Away \notin Range(received)

\* C4: in a session Stop is not called on, when mainloop services the end of
\* the context: a cancelled context yields no error record, any other cause
\* exactly one error record carrying it; then io.EOF follows as the last
\* record, after the error record and after every line record, the send on
\* f.stop is received by Start and mainloop exits.
C4_ContextDone ==
  stopPc = "idle" =>
    /\ ErrRec("Canceled") \notin Range(received)
    /\ Count(received, DeadlineErr) <= 1
    /\ DeadlineErr \in Range(received) => (ctx = "DeadlineExceeded" /\ ByCtx)
    /\ (loopPc = "ctx_stop" \/ (loopPc = "exited" /\ ByCtx)) =>
         /\ Count(received, DeadlineErr) = IF ctx = "DeadlineExceeded" THEN 1 ELSE 0
         /\ EOF \notin Range(Body(received))
         /\ ctx = "DeadlineExceeded" => Last(Body(received)) = DeadlineErr
         /\ loopPc = "ctx_stop" => (startPc = "wait_stop" /\ EOF \notin Range(received))
         /\ loopPc = "exited" => startPc # "wait_stop"
         /\ startPc \in {"close", "returned"} => Last(received) = EOF

C4_Witness ==
  /\ stopPc = "idle" /\ ctx = "DeadlineExceeded"
  /\ loopPc = "exited" /\ startPc = "returned"
  /\ Len(received) >= 3
  /\ received[1].Err = "nil"
  /\ SubSeq(received, Len(received) - 1, Len(received)) = <<DeadlineErr, EOF>>

\* C5: in a session Stop is not called on, when every reopen attempt of the
\* fast and of the slow phase has failed, the fatal record is sent exactly
\* once, io.EOF follows it as the last record, Start leaves its wait on f.stop
\* and returns, and mainloop is inside Stop for good: it reads and reopens
\* nothing any more.
C5_ReconnectExhausted ==
  stopPc = "idle" =>
    /\ Count(received, Gone) <= 1
    /\ loopPc = "gone_send" => (startPc = "wait_stop" /\ Gone \notin Range(received))
    /\ Gone \in Range(received) =>
         /\ loopPc = "Stop"
         /\ hist.opens >= FastTries
         /\ EOF \notin Range(Body(received))
         /\ Last(Body(received)) = Gone
         /\ inStop = "lock" => startPc # "wait_stop"
         /\ startPc \in {"close", "returned"} => Last(received) = EOF

C5_Witness ==
  /\ stopPc = "idle" /\ startPc = "returned" /\ loopPc = "Stop"
  /\ Len(received) >= 2
  /\ SubSeq(received, Len(received) - 1, Len(received)) = <<Gone, EOF>>

\* C6 (as claimed): with any negative Retry the fatal record is never sent.
C6_AnyNegativeRetry ==
  Retry < 0 => (Gone \notin Range(received) /\ loopPc # "gone_send")

\* C6 (amended): with Retry == -1, and only then among the negative values,
\* reconnection is unbounded: once the path is removed mainloop stays in the
\* reconnect, attempting to reopen, until an attempt succeeds; it never sends
\* a fatal record and never ends the session over the absence.
C6_MinusOneRetry ==
  Retry = 0 - 1 =>
    /\ Gone \notin Range(received) /\ Away \notin Range(received)
    /\ loopPc \notin {"gone_send", "away_send", "Stop"}
    /\ inStop = "no"
    /\ (loopPc \in {"fast", "slow", "slow_open"}) => (fpMu = "loop" /\ fp.closed)

C6_Witness ==
  /\ Retry = 0 - 1 /\ path = 0
  /\ loopPc = "slow_open" /\ hist.opens = AttemptCap

\* C7 (as claimed): with Retry == 0 the fatal record is sent only after the
\* fast phase has run and failed.
C7_FastPhaseWithZeroRetry ==
  (Retry = 0 /\ Away \in Range(received)) => hist.opens >= FastTries

\* C7 (amended): with Retry == 0 a remove or rename event starts no reopen
\* attempt at all, neither of the fast nor of the slow phase: the fatal record
\* "file went away" is sent at once, exactly once, and mainloop ends the
\* session through Stop, also when the path exists again.
C7_NoReconnectWithZeroRetry ==
  Retry = 0 =>
    /\ hist.opens = 0
    /\ loopPc \notin {"rm_lock", "fast", "slow", "slow_open", "gone_send"}
    /\ Gone \notin Range(received)
    /\ Count(received, Away) <= 1
    /\ Away \in Range(received) => loopPc \in {"Stop", "exited"}
    /\ loopPc = "away_send" => hist.removes > 0

C7_Witness ==
  /\ Retry = 0 /\ Away \in Range(received)
  /\ CanOpen /\ loopPc = "exited" /\ startPc = "returned"

\* ------------------------------------- properties: rotation and reopen
\* mainloop is idle in select, every notification is handled, the handle is open.
Drained == loopPc = "select" /\ events = <<>> /\ ~fp.closed

\* ls is a prefix of the records of a's complete lines followed by a prefix of
\* (when all is set: by all of) the records of b's complete lines.
Concat(ls, a, b, all) ==
  \E n \in 0..Len(ls) :
    /\ IsPrefix(SubSeq(ls, 1, n), Recs(CompleteLines(a)))
    /\ IF all THEN SubSeq(ls, n + 1, Len(ls)) = Recs(CompleteLines(b))
       ELSE IsPrefix(SubSeq(ls, n + 1, Len(ls)), Recs(CompleteLines(b)))

\* The content of the file created after the removal (inode 2).
Recreated == IF Len(files) >= 2 THEN files[2] ELSE <<>>

\* C8: with the default Retry, in a session with one removal or rename of the
\* path (no truncation, no reopen trigger, Stop not called): once the path
\* exists again mainloop reattaches with the handle at offset 0, sends no fatal
\* record and stays in the loop with fpMu released; the line records are lines
\* of the old file, in order, followed by lines of the recreated file, in
\* order, each at most once, and all lines of the recreated file are there
\* whenever mainloop is idle with every notification handled.
C8_RemoveRecreate ==
  (Retry = DefaultRetry /\ hist.truncs = 0 /\ hist.reopens = 0
     /\ hist.removes <= 1 /\ stopPc = "idle") =>
    /\ Concat(LinesOnly(received), files[1], Recreated, FALSE)
    /\ fp.ino = 2 =>
         /\ Gone \notin Range(received) /\ Away \notin Range(received)
         /\ loopPc \notin {"rm_lock", "fast", "slow", "slow_open", "gone_send", "Stop"}
         /\ fp.pos <= Len(files[2])
         /\ loopPc = "select" => fpMu = "free"
         /\ Drained => Concat(LinesOnly(received), files[1], files[2], TRUE)

C8_Witness ==
  /\ Retry = DefaultRetry /\ hist.truncs = 0 /\ hist.reopens = 0
  /\ hist.removes = 1 /\ stopPc = "idle"
  /\ fp.ino = 2 /\ Drained
  /\ Len(CompleteLines(files[1])) >= 1 /\ Len(CompleteLines(files[2])) >= 1
  /\ LinesOnly(received) = Recs(CompleteLines(files[1])) \o Recs(CompleteLines(files[2]))

\* The file was truncated once, to length zero; no removal, no reopen trigger.
TruncatedToZero ==
  /\ hist.truncs = 1 /\ hist.trunc.done /\ hist.trunc.cut = 0
  /\ hist.removes = 0 /\ hist.reopens = 0

\* C9 (as claimed): after a truncation to length zero and appends of whole
\* lines, whatever the interleaving, the line records are the lines emitted
\* before the truncation followed by every line written after it.
C9_TruncateAnyInterleaving ==
  (TruncatedToZero /\ WholeLines(hist.trunc.pre) /\ WholeLines(files[1]) /\ Drained)
    => Concat(LinesOnly(received), hist.trunc.pre, files[1], TRUE)

\* C9 (amended): the same, provided mainloop handled a write notification
\* while the file was still shorter than its cursor (a zero-byte read with the
\* cursor past end-of-file, after which it reads again from offset 0): then
\* the line records are pre-truncate lines followed by post-truncate lines, in
\* order and each once, and all post-truncate lines are there whenever
\* mainloop is idle with every notification handled.  Without a truncation
\* mainloop never reads again from offset 0.
C9_TruncateDetected ==
  (hist.truncs <= 1 /\ hist.removes = 0 /\ hist.reopens = 0
     /\ (hist.trunc.done => hist.trunc.cut = 0)) =>
    /\ hist.rescan => hist.trunc.done
    /\ hist.rescan =>
         /\ Concat(LinesOnly(received), hist.trunc.pre, files[1], FALSE)
         /\ Drained => Concat(LinesOnly(received), hist.trunc.pre, files[1], TRUE)

C9_Witness ==
  /\ TruncatedToZero /\ hist.rescan /\ Drained
  /\ Len(CompleteLines(hist.trunc.pre)) >= 1 /\ Len(CompleteLines(files[1])) >= 1
  /\ LinesOnly(received) =
       Recs(CompleteLines(hist.trunc.pre)) \o Recs(CompleteLines(files[1]))

\* One reopen trigger was sent and mainloop has performed the reopen; no
\* truncation and no removal.
Reopened ==
  /\ hist.reopens = 1 /\ hist.reopen.done
  /\ hist.truncs = 0 /\ hist.removes = 0

\* What mainloop emits around a reopen: the complete lines before the cursor
\* p it had, then the lines split from the bytes after offset q, the end of
\* the file when it was reopened.
AroundReopen(c, p, q) ==
  Recs(CompleteLines(SubSeq(c, 1, p))) \o Recs(CompleteLines(SubSeq(c, q + 1, Len(c))))

\* C10: after mainloop has serviced a reopen trigger, reading resumes at an
\* offset not before the old cursor, so no line emitted before the trigger is
\* emitted again; the lines appended after the reopen are emitted in order,
\* each once, and all of them are there whenever mainloop is idle with every
\* notification handled.
C10_Reopen ==
  Reopened =>
    /\ hist.reopen.q >= hist.reopen.p
    /\ fp.pos >= hist.reopen.q
    /\ IsPrefix(LinesOnly(received),
                AroundReopen(files[1], hist.reopen.p, hist.reopen.q))
    /\ Drained => LinesOnly(received) =
                    AroundReopen(files[1], hist.reopen.p, hist.reopen.q)

C10_Witness ==
  /\ Reopened /\ Drained
  /\ hist.reopen.p > 0
  /\ Len(CompleteLines(SubSeq(files[1], hist.reopen.q + 1, Len(files[1])))) >= 1
  /\ LinesOnly(received) = AroundReopen(files[1], hist.reopen.p, hist.reopen.q)

\* ------------------------------------------------- properties: Start
\* Start returned an error of its setup.
SetupFailed == startPc = "failed"

\* C11: when the setup of Start fails (the path cannot be made absolute or
\* opened, the watcher cannot be created, the directory cannot be added),
\* Start returns that error and the session produces nothing: no record was
\* sent on Data, io.EOF included, Ready is not closed, and the goroutine
\* running mainloop was never started.  No record is sent and mainloop is not
\* started before the setup has succeeded either.
C11_SetupFailure ==
  /\ SetupFailed =>
       /\ ret \in {"getwd", "open: no such file", "inotify", "add"}
       /\ received = <<>>
       /\ ~Ready
       /\ loopPc = "not_started"
       /\ stopPc = "idle"
  /\ startPc \in {"abs", "open", "watcher", "add"} =>
       (received = <<>> /\ ~Ready /\ loopPc = "not_started")

C11_Witness ==
  /\ SetupFailed /\ ret = "add"
  /\ fp.ino = 1 /\ fp.closed
  /\ hist.writes = MaxWrites

\* The session ended by a fatal failure: a record of the removal with
\* Retry == 0, of the exhausted reconnect, or of a context that ended for a
\* cause other than context.Canceled.
Fatal ==
  \/ Away \in Range(received)
  \/ Gone \in Range(received)
  \/ DeadlineErr \in Range(received)

\* C12: the value Start returns after a successful setup is the reason the
\* session terminated: nil when it ended by Stop or by an ordinary
\* cancellation, a non-nil error when it ended by a fatal failure.
C12_ReturnReason ==
  (startPc = "returned" /\ Ready) => (ret = "nil" <=> ~Fatal)

\* ------------------------------------------- properties: the write branch
\* The complete lines of the first n bytes of the followed file, as records.
LinesUpTo(n) == Recs(CompleteLines(SubSeq(files[1], 1, n)))

\* C13: in an append-only session, whenever mainloop does not hold fpMu (so
\* after every handled write event) the cursor of the open handle (a handle
\* Start's return has closed has none) sits immediately after a
\* newline of the file, or at offset 0; the line records emitted so far, with
\* the lines split but not sent yet, are exactly the complete lines before the
\* cursor.  So the line records are a prefix of the complete lines appended: a
\* line is never emitted before its newline is in the file, never in pieces,
\* never twice.
C13_CursorAfterDelimiter ==
  AppendOnly =>
    /\ fp.pos <= Len(files[1])
    /\ (fpMu = "free" /\ ~fp.closed) =>
         /\ (fp.pos = 0 \/ files[1][fp.pos] = NL)
         /\ LinesOnly(received) \o Recs(s) = LinesUpTo(fp.pos)
    /\ IsPrefix(LinesOnly(received), Recs(CompleteLines(files[1])))

C13_Witness ==
  /\ AppendOnly /\ Drained /\ fpMu = "free"
  /\ files[1] = <<97, NL, 98>>
  /\ fp.pos = 2
  /\ received = <<Line(<<97>>)>>

\* C14: on a write event whose read returned zero bytes (on an open handle):
\* if the cursor is strictly past end-of-file, the cursor is reset to 0 and
\* the whole file is read, to be split; otherwise the cursor is left where it
\* was, nothing is split and no record is sent.  Bytes reach mainloop in no
\* other way than the read from the cursor or this read from offset 0, which
\* happens only after a zero-byte read with the cursor past end-of-file.
C14_ZeroByteRead ==
  [][ /\ (loopPc = "truncated" /\ loopPc' # loopPc /\ ~fp.closed) =>
           /\ IF fp.pos > Len(files[fp.ino])
              THEN d' = files[fp.ino] /\ fp'.pos = Len(files[fp.ino])
              ELSE d' = <<>> /\ fp' = fp
           /\ received' = received
           /\ loopPc' = "split"
      /\ (loopPc = "split" /\ loopPc' # loopPc /\ d = <<>>) =>
           (fp' = fp /\ s' = <<>> /\ received' = received /\ loopPc' # "emit")
      /\ (d' # d /\ d' # <<>>) =>
           \/ /\ loopPc = "write_lock"
              /\ d' = SubSeq(files[fp.ino], fp.pos + 1, Len(files[fp.ino]))
           \/ /\ loopPc = "truncated" /\ d = <<>>
              /\ fp.pos > Len(files[fp.ino])
              /\ d' = files[fp.ino]
      /\ (hist'.rescan /\ ~hist.rescan) =>
           (loopPc = "truncated" /\ d = <<>> /\ fp.pos > Len(files[fp.ino]))
    ]_vars

C14_Witness ==
  /\ loopPc = "split" /\ fpMu = "loop"
  /\ hist.trunc.done /\ hist.trunc.cut = 1 /\ hist.rescan
  /\ files[1] = <<97>> /\ d = <<97>> /\ fp.pos = 1
  /\ received = <<Line(<<97>>)>>

\* ------------------------------------------------ properties: the lock
\* C15: after setup, every step that closes, replaces or moves the handle is
\* taken by a task that holds fpMu: it is a step of mainloop with the lock
\* held (or of reopen, which takes and releases it), never a step of the task
\* running Start or of the caller of Stop.
C15_HandleUnderLock ==
  [][ fp' # fp =>
        /\ startPc' = startPc /\ stopPc' = stopPc
        /\ (fpMu = "loop" \/ fpMu' = "loop" \/ loopPc = "reopen_lock")
    ]_vars

\* C16: when mainloop services a reopen trigger the new handle continues from
\* the offset already consumed, not from end-of-file, so the complete lines
\* appended before the trigger and not read yet are emitted after it: with
\* every notification handled, each complete line of the file was emitted
\* exactly once.
C16_ReopenKeepsUnread ==
  Reopened =>
    /\ hist.reopen.q = hist.reopen.p
    /\ Drained => LinesOnly(received) = Recs(CompleteLines(files[1]))

\* ------------------------------------------- properties: notifications
\* A notification mainloop has nothing to do for: it names another entry of
\* the directory, or its operation is none of write, remove and rename.
Ignored(ev) ==
  ev.Name # File \/ ev.Op \cap {"Write", "Remove", "Rename"} = {}

\* C17: when mainloop takes such a notification from w.Events, nothing
\* changes: the handle and its cursor are as before, fpMu is not taken, no
\* record is sent, no reopen is attempted, and mainloop is back in its select.
C17_IgnoredEvent ==
  [][ (loopPc = "select" /\ events # <<>> /\ events' = Tail(events)
         /\ Ignored(Head(events))) =>
        /\ fp' = fp /\ fpMu' = fpMu
        /\ received' = received
        /\ hist'.opens = hist.opens
        /\ loopPc' = "select" /\ inStop' = inStop
        /\ startPc' = startPc
    ]_vars

C17_Witness ==
  /\ hist.noise = 1 /\ Drained /\ fpMu = "free"
  /\ files[1] = <<97, NL>> /\ fp.pos = 2
  /\ received = <<Line(<<97>>)>>

\* ------------------------------------------- properties: the retry budget
\* Retry in whole seconds.
Budget == Retry \div Second

\* mainloop is in the reconnect: an attempt failed or is about to be made.
Reconnecting == loopPc \in {"fast", "slow", "slow_open"}

\* The reopen attempts of the current reconnect stay within the budget: i
\* failed attempts in the fast phase, then one per second paid of wait; the
\* failure is declared after exactly FastTries + Budget failed attempts.
WithinBudget ==
  /\ hist.opens <= FastTries + Budget
  /\ loopPc = "fast" => (hist.opens = i /\ i < FastTries)
  /\ loopPc = "slow" =>
       (wait >= 0 /\ hist.opens = FastTries + (Retry - wait) \div Second)
  /\ loopPc = "slow_open" =>
       (wait >= 0 /\ hist.opens + 1 = FastTries + (Retry - wait) \div Second)
  /\ (loopPc = "gone_send" \/ Gone \in Range(received)) =>
       hist.opens = FastTries + Budget
  /\ Reconnecting => (fp.closed /\ fpMu = "loop")

\* C18: after a remove/rename event with Retry = k whole seconds (k >= 1)
\* mainloop makes at most 10 fast and then at most k slow reopen attempts, one
\* per second of the budget; it declares the failure after exactly 10 + k
\* failed attempts and attempts nothing after that.  An attempt made when the
\* path exists succeeds: it ends the reconnect with the new handle at offset
\* 0 and fpMu released, and mainloop is back in its select; a failed attempt
\* leaves the handle closed and the reconnect going.
C18_RetryBudget ==
  [][ /\ WithinBudget'
      /\ (loopPc \in {"fast", "slow_open"} /\ hist'.opens = hist.opens + 1) =>
           IF CanOpen
           THEN /\ fp' = [ino |-> path, pos |-> 0, closed |-> FALSE]
                /\ fpMu' = "free" /\ loopPc' = "select"
           ELSE /\ fp' = fp /\ fpMu' = fpMu
                /\ loopPc' \in {"fast", "slow"}
    ]_vars

C18_Witness ==
  /\ Retry = Second /\ hist.opens = FastTries + 1
  /\ Gone \in Range(received) /\ loopPc = "Stop"

\* C19: no task waits for fpMu while itself holding it: mainloop is never at
\* the f.fpMu.Lock() of its own call of Stop with the lock still held from
\* line 216.
C19_NoSelfDeadlock ==
  ~(inStop = "lock" /\ fpMu = "loop")

\* ------------------------------------------------- properties: liveness
\* C20: under fair scheduling and with a consumer that keeps receiving, a
\* call of Stop made after Ready is closed eventually returns, whatever the
\* session is doing or has done when it is called.
C20_StopReturns ==
  (stopPc = "send") ~> (stopPc = "returned")
====
